---- MODULE Spec2Model ----
(***************************************************************************)
(* Model of the itinerary core of app.py: haversine_km,                    *)
(* travel_time_between, score_poi and build_greedy_itinerary.              *)
(*                                                                         *)
(* Units.  Python computes in floats; the model computes in integers:      *)
(*   - coordinates are grid steps; every point of one run lies on one      *)
(*     meridian, and one step of latitude subtends 1000 m on the           *)
(*     6371 km sphere;                                                     *)
(*   - distances are metres;                                               *)
(*   - times are hundredths of a minute ("centi-minutes"), so that         *)
(*     round(travel_min, 1) is a real rounding (to a multiple of 10);      *)
(*   - a routing duration is tenths of a second, the precision the         *)
(*     routing service reports.                                            *)
(***************************************************************************)
EXTENDS Integers, Sequences, FiniteSets, TLC

VARIABLES
    pois,           \* argument: the raw POI records, in input order
    start_lat,      \* argument
    start_lon,      \* argument
    days,           \* argument
    hours_per_day,  \* argument
    mode,           \* argument
    poi_list,       \* local: filtered, scored, sorted candidates
    idx,            \* position of the for loop of line 131 in poi_list
    day,            \* local: day counter
    itinerary,      \* local: [days |-> sequence of DayPlan]
    current_day,    \* local: the DayPlan being filled
    current_lat,    \* local
    current_lon,    \* local
    pc,             \* "start", "loop", "flush", "done"; "travel" in SpecTravel
    admitted,       \* history: one entry per items.append, with the unrounded
                    \* travel time and the point it was measured from
    dropped,        \* history: names of candidates that fitted neither day
    tt_args,        \* SpecTravel: the arguments of one travel_time_between call
    tt_ret          \* SpecTravel: what that call did

vars == <<pois, start_lat, start_lon, days, hours_per_day, mode, poi_list, idx,
          day, itinerary, current_day, current_lat, current_lon, pc,
          admitted, dropped, tt_args, tt_ret>>

\* ------------------------------------------------------------------ bounds

MaxPois == 3
MaxDays == 2

\* ----------------------------------------------------- program constants

VisitMin == 60
FootSpeed == 5
DrivingSpeed == 40
PopularityWeight == 2

Modes == {"foot", "driving"}

\* ------------------------------------------------- Python values, helpers

\* None, or a missing dict key read with .get(): the empty sequence.
\* A present value v: <<v>>.
None == << >>
Some(v) == <<v>>
IsNone(x) == x = None

\* Python truthiness of an optional number: None and 0 are falsy.
Truthy(x) == x # None /\ x[1] # 0

\* Python's `a or b`
PyOr(a, b) == IF Truthy(a) THEN a ELSE b

Abs(n) == IF n < 0 THEN 0 - n ELSE n

\* round(x, 1) on centi-minutes: to the nearest multiple of 10, a tie going
\* to the even tenth.
Round1(t) ==
    LET q == t \div 10
        r == t % 10
    IN  IF r < 5 THEN q * 10
        ELSE IF r > 5 THEN (q + 1) * 10
        ELSE IF q % 2 = 0 THEN q * 10 ELSE (q + 1) * 10

\* ---------------------------------------------------------------- Geo-Math

\* haversine_km on one meridian or on the equator, in metres.  With
\* lon1 = lon2 the formula has dlon = 0, a = sin(dlat/2)^2 and
\* c = 2*asin(sin(|dlat|/2)) = |dlat|, so km = 6371 * |dlat|; with
\* lat1 = lat2 = 0 it has cos(lat1)*cos(lat2) = 1 and km = 6371 * |dlon|.
\* No other pair of points occurs in the model.
haversine_km(lat1, lon1, lat2, lon2) ==
    CASE lon1 = lon2 -> 1000 * Abs(lat2 - lat1)
      [] lon1 # lon2 /\ lat1 = 0 /\ lat2 = 0 -> 1000 * Abs(lon2 - lon1)

\* What requests.get(...), r.json()["routes"][0]["duration"] can do (lines
\* 95-99): deliver a duration, or raise.
RoutingFailures ==
    { "timeout", "connection_error", "non_json_body", "no_routes_key",
      "empty_routes", "no_duration_key", "non_numeric_duration" }

\* Durations the routing service may report, in tenths of a second:
\* 3.6 s (0.06 min), 3592.8 s (59.88 min), 14400 s (240 min).
Durations == {36, 35928, 144000}

RoutingResponses ==
    [kind : {"ok"}, duration : Durations] \cup
    [kind : RoutingFailures, duration : {0}]

\* The responses the builder's runs draw from: every duration, a transport
\* failure and a malformed body.  SpecTravel covers every failure.
BuilderResponses ==
    { r \in RoutingResponses : r.kind \in {"ok", "timeout", "no_routes_key"} }

\* The exception each failure raises inside the try block.
RaisedBy(resp) ==
    CASE resp.kind = "ok" -> "none"
      [] resp.kind = "timeout" -> "requests.Timeout"
      [] resp.kind = "connection_error" -> "requests.ConnectionError"
      [] resp.kind = "non_json_body" -> "JSONDecodeError"
      [] resp.kind = "no_routes_key" -> "KeyError"
      [] resp.kind = "empty_routes" -> "IndexError"
      [] resp.kind = "no_duration_key" -> "KeyError"
      [] resp.kind = "non_numeric_duration" -> "TypeError"

\* A narrower handler, as fetch_pois_opentripmap has: only the requests
\* exceptions are caught.
CaughtRequestsOnly(exc) ==
    exc \in {"requests.Timeout", "requests.ConnectionError"}

\* `except Exception` (line 100): every exception above is a subclass.
Caught(exc) ==
    exc \in { "requests.Timeout", "requests.ConnectionError", "JSONDecodeError",
              "KeyError", "IndexError", "TypeError" }

\* speed = 5.0 if mode == "foot" else 40.0 (line 103)
Speed(m) == IF m = "foot" THEN FootSpeed ELSE DrivingSpeed

\* (dist / speed) * 60 (lines 102-104), metres to centi-minutes
FallbackMinutes(lat1, lon1, lat2, lon2, m) ==
    (haversine_km(lat1, lon1, lat2, lon2) * 60 * 100) \div (Speed(m) * 1000)

\* duration / 60 (line 99), tenths of a second to centi-minutes
DurationMinutes(resp) == (resp.duration * 100) \div (10 * 60)

\* One call of travel_time_between with the routing service answering resp:
\* the exception that leaves the function ("none" when it returns) and the
\* value returned.
travel_time_call(lat1, lon1, lat2, lon2, m, resp) ==
    LET exc == RaisedBy(resp)
    IN  IF exc = "none"
        THEN [raised |-> "none", value |-> Some(DurationMinutes(resp))]
        ELSE IF Caught(exc)
        THEN [raised |-> "none",
              value |-> Some(FallbackMinutes(lat1, lon1, lat2, lon2, m))]
        ELSE [raised |-> exc, value |-> None]

travel_time_between(lat1, lon1, lat2, lon2, m, resp) ==
    travel_time_call(lat1, lon1, lat2, lon2, m, resp).value[1]

\* ------------------------------------------------------------- POI Scorer

\* poi.get("point", {}).get("lat") or poi.get("lat")  (lines 108, 120)
ResolveLat(p) == PyOr(p.point.lat, p.lat)
\* poi.get("point", {}).get("lon") or poi.get("lon")  (lines 109, 121)
ResolveLon(p) == PyOr(p.point.lon, p.lon)

\* score in metres: (popularity * 2) - dist_km
score_poi(p, origin_lat, origin_lon) ==
    LET lat == ResolveLat(p)
        lon == ResolveLon(p)
    IN  IF IsNone(lat) \/ IsNone(lon) THEN 0
        ELSE p.rate * PopularityWeight * 1000
             - haversine_km(origin_lat, origin_lon, lat[1], lon[1])

\* --------------------------------------------------------- Itinerary Builder

\* lines 119-126: keep the records whose lat and lon resolve, and attach
\* _lat, _lon and _score.
RECURSIVE FilterAndScore(_, _, _)
FilterAndScore(ps, olat, olon) ==
    IF ps = << >> THEN << >>
    ELSE LET p == Head(ps)
             lat == ResolveLat(p)
             lon == ResolveLon(p)
             rest == FilterAndScore(Tail(ps), olat, olon)
         IN  IF IsNone(lat) \/ IsNone(lon) THEN rest
             ELSE << [name |-> p.name, rate |-> p.rate,
                      _lat |-> lat[1], _lon |-> lon[1],
                      _score |-> score_poi(p, olat, olon)] >> \o rest

\* key=lambda x: -x["_score"] (line 127)
SortKey(p) == 0 - p._score

\* Insertion of x into a sequence sorted by key, behind every element whose
\* key is not larger: what a stable sort does with x arriving last.
RECURSIVE InsertStable(_, _)
InsertStable(s, x) ==
    IF s = << >> THEN << x >>
    ELSE IF SortKey(Head(s)) <= SortKey(x)
         THEN << Head(s) >> \o InsertStable(Tail(s), x)
         ELSE << x >> \o s

\* sorted(poi_list, key=...) (line 127): Python's sort is stable.
RECURSIVE Sorted(_)
Sorted(s) ==
    IF s = << >> THEN << >>
    ELSE InsertStable(Sorted(SubSeq(s, 1, Len(s) - 1)), s[Len(s)])

\* {"day": day, "items": [], "minutes_left": hours_per_day*60} (lines 130, 151)
NewDay(d, hours) == [day |-> d, items |-> << >>, minutes_left |-> hours * 60 * 100]

\* The comparison with the visit's own 60 minutes left out.
FitsTravelOnly(minutes_left, total_needed) ==
    minutes_left >= total_needed - VisitMin * 100

\* current_day["minutes_left"] >= total_needed (lines 135, 153)
Fits(minutes_left, total_needed) == minutes_left >= total_needed

\* The comparison off by one: the loop goes on for one day more.
DayCountExhaustedLate(d, n) == d > n + 1

\* day > days (line 149)
DayCountExhausted(d, n) == d > n

\* items.append({...}); minutes_left -= total_needed (lines 136-144, 154-162)
AppendVisit(dp, p, travel_min) ==
    [dp EXCEPT !.items = Append(@, [name |-> p.name, lat |-> p._lat, lon |-> p._lon,
                                    travel_min |-> Round1(travel_min),
                                    visit_min |-> VisitMin * 100]),
               !.minutes_left = @ - (travel_min + VisitMin * 100)]

\* History entry of one items.append.
Admission(p, d, from_lat, from_lon, travel_min) ==
    [name |-> p.name, day |-> d, from_lat |-> from_lat, from_lon |-> from_lon,
     travel |-> travel_min]

\* Where the for loop goes after the iteration at index i.
AfterIteration(i) == IF i + 1 > Len(poi_list) THEN "flush" ELSE "loop"

\* ------------------------------------------------------------------ inputs

Hours == {1, 4}
Lats == {0, 1, 2}
Meridians == {0, 1}

\* The records the builder runs are drawn from, every point on meridian m:
\* coordinates flat, 2 steps north of the equator; nested, 1 step north;
\* nested and on the equator; nested on the equator with a flat pair 2 steps
\* north as well.
BuilderShapes(m) ==
    { [point |-> [lat |-> Some(0), lon |-> Some(m)], lat |-> Some(2), lon |-> Some(m), rate |-> 0] } \cup
    { [point |-> [lat |-> None, lon |-> None], lat |-> Some(2), lon |-> Some(m), rate |-> 1],
      [point |-> [lat |-> Some(1), lon |-> Some(m)], lat |-> None, lon |-> None, rate |-> 0],
      [point |-> [lat |-> Some(0), lon |-> Some(m)], lat |-> None, lon |-> None, rate |-> 1] }

\* Sequences over S of length 1..n
SeqsUpTo(S, n) == UNION { [1..k -> S] : k \in 1..n }

\* Each record named by its position in the input.
Named(shapes) ==
    [i \in 1..Len(shapes) |->
        [name |-> i, point |-> shapes[i].point, lat |-> shapes[i].lat,
         lon |-> shapes[i].lon, rate |-> shapes[i].rate]]

NoCall == [lat1 |-> 0, lon1 |-> 0, lat2 |-> 0, lon2 |-> 0, mode |-> "foot",
           resp |-> [kind |-> "ok", duration |-> 0]]
NoReturn == [raised |-> "none", value |-> None]

\* The locals before line 117 runs.
Unstarted ==
    /\ poi_list = << >>
    /\ idx = 0
    /\ day = 0
    /\ itinerary = [days |-> << >>]
    /\ current_day = NewDay(0, 0)
    /\ current_lat = start_lat
    /\ current_lon = start_lon
    /\ admitted = << >>
    /\ dropped = {}

Init ==
    /\ start_lat = 1
    /\ start_lon = 1
    /\ pois \in { Named(s) : s \in SeqsUpTo(BuilderShapes(start_lon), MaxPois) }
    /\ days \in 1..MaxDays
    /\ hours_per_day \in Hours
    /\ mode \in Modes
    /\ pc = "start"
    /\ Unstarted
    /\ tt_args = NoCall
    /\ tt_ret = NoReturn

\* ----------------------------------------------------------------- actions

inputs == <<pois, start_lat, start_lon, days, hours_per_day, mode>>
travel_vars == <<tt_args, tt_ret>>

\* lines 117-130
Prepare ==
    /\ pc = "start"
    /\ current_lat' = start_lat
    /\ current_lon' = start_lon
    /\ poi_list' = Sorted(FilterAndScore(pois, start_lat, start_lon))
    /\ day' = 1
    /\ itinerary' = [days |-> << >>]
    /\ current_day' = NewDay(1, hours_per_day)
    /\ idx' = 1
    /\ pc' = IF Len(poi_list') = 0 THEN "flush" ELSE "loop"
    /\ UNCHANGED <<inputs, admitted, dropped, travel_vars>>

\* lines 132-145: the candidate fits on the current day
FitCurrent ==
    /\ pc = "loop"
    /\ \E resp \in BuilderResponses :
         LET p == poi_list[idx]
             travel_min == travel_time_between(current_lat, current_lon,
                                               p._lat, p._lon, mode, resp)
             total_needed == travel_min + VisitMin * 100
         IN  /\ Fits(current_day.minutes_left, total_needed)
             /\ current_day' = AppendVisit(current_day, p, travel_min)
             /\ admitted' = Append(admitted, Admission(p, current_day.day,
                                       current_lat, current_lon, travel_min))
             /\ current_lat' = p._lat
             /\ current_lon' = p._lon
    /\ pc' = AfterIteration(idx)
    /\ idx' = idx + 1
    /\ UNCHANGED <<inputs, poi_list, day, itinerary, dropped, travel_vars>>

\* lines 132-135, 146-150: it does not fit, and the day counter passes days
CloseAndBreak ==
    /\ pc = "loop"
    /\ \E resp \in BuilderResponses :
         LET p == poi_list[idx]
             travel_min == travel_time_between(current_lat, current_lon,
                                               p._lat, p._lon, mode, resp)
             total_needed == travel_min + VisitMin * 100
         IN  ~Fits(current_day.minutes_left, total_needed)
    /\ itinerary' = [itinerary EXCEPT !.days = Append(@, current_day)]
    /\ day' = day + 1
    /\ DayCountExhausted(day', days)
    /\ pc' = "flush"
    /\ UNCHANGED <<inputs, poi_list, idx, current_day, current_lat, current_lon,
                   admitted, dropped, travel_vars>>

\* lines 132-135, 146-163: it does not fit, a new day opens, and it fits there
CloseAndFitNew ==
    /\ pc = "loop"
    /\ \E resp \in BuilderResponses :
         LET p == poi_list[idx]
             travel_min == travel_time_between(current_lat, current_lon,
                                               p._lat, p._lon, mode, resp)
             total_needed == travel_min + VisitMin * 100
         IN  ~Fits(current_day.minutes_left, total_needed)
    /\ itinerary' = [itinerary EXCEPT !.days = Append(@, current_day)]
    /\ day' = day + 1
    /\ ~DayCountExhausted(day', days)
    /\ \E resp \in BuilderResponses :
         LET p == poi_list[idx]
             fresh == NewDay(day', hours_per_day)
             travel_min == travel_time_between(start_lat, start_lon,
                                               p._lat, p._lon, mode, resp)
         IN  /\ Fits(fresh.minutes_left, travel_min + VisitMin * 100)
             /\ current_day' = AppendVisit(fresh, p, travel_min)
             /\ admitted' = Append(admitted, Admission(p, day',
                                       start_lat, start_lon, travel_min))
             /\ current_lat' = p._lat
             /\ current_lon' = p._lon
    /\ pc' = AfterIteration(idx)
    /\ idx' = idx + 1
    /\ UNCHANGED <<inputs, poi_list, dropped, travel_vars>>

\* lines 132-135, 146-153: it does not fit, a new day opens, and it does not
\* fit there either
CloseAndDrop ==
    /\ pc = "loop"
    /\ \E resp \in BuilderResponses :
         LET p == poi_list[idx]
             travel_min == travel_time_between(current_lat, current_lon,
                                               p._lat, p._lon, mode, resp)
             total_needed == travel_min + VisitMin * 100
         IN  ~Fits(current_day.minutes_left, total_needed)
    /\ itinerary' = [itinerary EXCEPT !.days = Append(@, current_day)]
    /\ day' = day + 1
    /\ ~DayCountExhausted(day', days)
    /\ current_day' = NewDay(day', hours_per_day)
    /\ \E resp \in BuilderResponses :
         LET p == poi_list[idx]
             travel_min == travel_time_between(start_lat, start_lon,
                                               p._lat, p._lon, mode, resp)
         IN  ~Fits(current_day'.minutes_left, travel_min + VisitMin * 100)
    /\ dropped' = dropped \cup {poi_list[idx].name}
    /\ pc' = AfterIteration(idx)
    /\ idx' = idx + 1
    /\ UNCHANGED <<inputs, poi_list, current_lat, current_lon, admitted, travel_vars>>

\* lines 164-166
Flush ==
    /\ pc = "flush"
    /\ itinerary' = IF current_day.items # << >>
                    THEN [itinerary EXCEPT !.days = Append(@, current_day)]
                    ELSE itinerary
    /\ pc' = "done"
    /\ UNCHANGED <<inputs, poi_list, idx, day, current_day, current_lat,
                   current_lon, admitted, dropped, travel_vars>>

Next ==
    \/ Prepare
    \/ FitCurrent
    \/ CloseAndBreak
    \/ CloseAndFitNew
    \/ CloseAndDrop
    \/ Flush

Spec == Init /\ [][Next]_vars

\* ------------------------------------------- travel_time_between on its own

InitTravel ==
    /\ start_lat = 1
    /\ start_lon = 1
    /\ pois = << >>
    /\ days = 1
    /\ hours_per_day = 1
    /\ mode = "foot"
    /\ Unstarted
    /\ pc = "travel"
    /\ tt_args \in [lat1 : Lats, lon1 : Meridians, lat2 : Lats, lon2 : Meridians,
                    mode : Modes, resp : RoutingResponses]
    /\ tt_args.lon1 = tt_args.lon2 \/ (tt_args.lat1 = 0 /\ tt_args.lat2 = 0)
    /\ tt_ret = NoReturn

\* lines 90-104, one call
TravelCall ==
    /\ pc = "travel"
    /\ tt_ret' = travel_time_call(tt_args.lat1, tt_args.lon1, tt_args.lat2,
                                  tt_args.lon2, tt_args.mode, tt_args.resp)
    /\ pc' = "returned"
    /\ UNCHANGED <<inputs, poi_list, idx, day, itinerary, current_day,
                   current_lat, current_lon, admitted, dropped, tt_args>>

SpecTravel == InitTravel /\ [][TravelCall]_vars

\* ------------------------------------------------- reading a built itinerary

RECURSIVE Sum(_)
Sum(s) == IF s = << >> THEN 0 ELSE Head(s) + Sum(Tail(s))

RECURSIVE Concat(_)
Concat(ss) == IF ss = << >> THEN << >> ELSE Head(ss) \o Concat(Tail(ss))

ItemNames(dp) == [i \in 1..Len(dp.items) |-> dp.items[i].name]

\* The visits of the itinerary, day by day and in order within each day.
VisitNames == Concat([i \in 1..Len(itinerary.days) |-> ItemNames(itinerary.days[i])])

\* The names of the sorted candidates, in loop order.
CandidateNames == [i \in 1..Len(poi_list) |-> poi_list[i].name]

RECURSIVE IsSubsequence(_, _)
IsSubsequence(s, t) ==
    IF s = << >> THEN TRUE
    ELSE IF t = << >> THEN FALSE
    ELSE IF Head(s) = Head(t) THEN IsSubsequence(Tail(s), Tail(t))
    ELSE IsSubsequence(s, Tail(t))

\* Every DayPlan that exists: those appended, and the one being filled.
DayPlans ==
    { itinerary.days[i] : i \in 1..Len(itinerary.days) } \cup
    (IF pc = "start" THEN {} ELSE {current_day})

Capacity == hours_per_day * 60 * 100

\* The admissions into day number d.
AdmittedOn(d) == SelectSeq(admitted, LAMBDA a : a.day = d)

ExactMinutes(a) == a.travel + VisitMin * 100

\* The unrounded travel and visit minutes of the visits of day number d.
ExactTotal(d) ==
    LET as == AdmittedOn(d) IN Sum([i \in 1..Len(as) |-> ExactMinutes(as[i])])

\* sum(visit.travel_min + visit.visit_min for visit in day.items)
RecordedTotal(dp) ==
    Sum([i \in 1..Len(dp.items) |-> dp.items[i].travel_min + dp.items[i].visit_min])

\* ------------------------------------------------------------------ claims

\* C1: the returned itinerary has at most dayCount entries in its days list.
C1_DayCountBound == pc = "done" => Len(itinerary.days) <= days

\* C2: no DayPlan with zero visits appears in the returned itinerary.
C2_NoEmptyDay ==
    pc = "done" => \A i \in 1..Len(itinerary.days) : itinerary.days[i].items # << >>

\* C3 as stated: for every DayPlan of the built itinerary the sum over its
\* visits of travel_min + visit_min is at most hoursPerDay*60, and
\* minutes_left is never negative.
C3_RecordedWithinCapacity ==
    /\ \A dp \in DayPlans : dp.minutes_left >= 0
    /\ pc = "done" =>
          \A i \in 1..Len(itinerary.days) : RecordedTotal(itinerary.days[i]) <= Capacity

\* C3 as amended, the state part: minutes_left is never negative and is the
\* capacity less the unrounded travel and visit minutes of the day's visits,
\* so that unrounded sum is within the capacity; the recorded, rounded sum
\* exceeds it by at most 0.05 minutes a visit.
C3_DayWithinCapacity ==
    \A dp \in DayPlans :
        /\ dp.minutes_left >= 0
        /\ Len(AdmittedOn(dp.day)) = Len(dp.items)
        /\ ExactTotal(dp.day) = Capacity - dp.minutes_left
        /\ ExactTotal(dp.day) <= Capacity
        /\ RecordedTotal(dp) <= Capacity + 5 * Len(dp.items)

\* C3 as amended, the step part: while the current day stays the same day its
\* minutes_left does not increase, and a visit is appended only when
\* minutes_left covers its unrounded travel and visit minutes.
C3_MinutesLeftStep ==
    /\ (current_day'.day = current_day.day /\ pc # "start")
          => current_day'.minutes_left <= current_day.minutes_left
    /\ Len(admitted') > Len(admitted)
          => LET a == admitted'[Len(admitted')]
             IN  /\ current_day'.minutes_left + ExactMinutes(a) <= Capacity
                 /\ a.day = current_day.day
                       => ExactMinutes(a) <= current_day.minutes_left

\* C3 as amended: capacity holds of the unrounded travel estimates, not of the
\* recorded one-decimal values.
C3_Capacity == [](C3_DayWithinCapacity) /\ [][C3_MinutesLeftStep]_vars

\* C3 witness: a finished day with three visits that uses its capacity to the
\* minute while its recorded minutes add up to more.
C3_Witness ==
    /\ pc = "done"
    /\ \E i \in 1..Len(itinerary.days) :
          /\ Len(itinerary.days[i].items) = 3
          /\ itinerary.days[i].minutes_left = 0
          /\ RecordedTotal(itinerary.days[i]) > Capacity

\* C4: the first visit of every day has its travel time measured from the
\* trip origin.
C4_FirstVisitFromOrigin ==
    \A k \in 1..Len(admitted) :
        (\A j \in 1..(k - 1) : admitted[j].day # admitted[k].day)
            => (admitted[k].from_lat = start_lat /\ admitted[k].from_lon = start_lon)

\* C5: when no candidate ever fits, the returned itinerary has zero days.
C5_NothingFitsNoDays ==
    (pc = "done" /\ admitted = << >>) => Len(itinerary.days) = 0

\* A record carries a latitude and a longitude, nested or flat.
Resolvable(p) ==
    /\ (p.point.lat # None \/ p.lat # None)
    /\ (p.point.lon # None \/ p.lon # None)

\* The nested field first, then the flat one.
NestedFirst(nested, flat) == IF nested # None THEN nested ELSE flat

\* C6: a candidate is filtered out if and only if its coordinates are
\* unresolvable, and a kept candidate has the nested coordinate where there
\* is one, and the flat one otherwise.
C6_FilterIffUnresolvable ==
    pc # "start" /\ pc # "travel" /\ pc # "returned" =>
        \A i \in 1..Len(pois) :
            /\ Resolvable(pois[i]) <=> (\E j \in 1..Len(poi_list) : poi_list[j].name = i)
            /\ \A j \in 1..Len(poi_list) :
                  poi_list[j].name = i =>
                      /\ Some(poi_list[j]._lat) = NestedFirst(pois[i].point.lat, pois[i].lat)
                      /\ Some(poi_list[j]._lon) = NestedFirst(pois[i].point.lon, pois[i].lon)

\* C7: travel_time_between returns a number whatever the routing call does,
\* and when the routing call fails the number is haversine_km / speed * 60,
\* speed 5 on foot and 40 driving.
C7_TravelNeverFails ==
    pc = "returned" =>
        /\ tt_ret.raised = "none"
        /\ tt_ret.value # None
        /\ tt_args.resp.kind # "ok" =>
              tt_ret.value[1] * (IF tt_args.mode = "foot" THEN 5 ELSE 40) * 1000
                 = haversine_km(tt_args.lat1, tt_args.lon1,
                                tt_args.lat2, tt_args.lon2) * 60 * 100

\* C7 witness: a driving call whose response has a non-numeric duration
\* returns the fallback of a 2 km leg, 3 minutes.
C7_Witness ==
    /\ pc = "returned"
    /\ tt_args.resp.kind = "non_numeric_duration"
    /\ tt_args.mode = "driving"
    /\ tt_ret.raised = "none"
    /\ tt_ret.value = Some(300)

\* C8: the visits of the returned itinerary, day by day, are a subsequence of
\* the candidates in score-descending order, equal scores in input order.
C8_VisitsInScoreOrder ==
    pc = "done" =>
        /\ \A i, j \in 1..Len(poi_list) :
              i < j => \/ poi_list[i]._score > poi_list[j]._score
                       \/ /\ poi_list[i]._score = poi_list[j]._score
                          /\ poi_list[i].name < poi_list[j].name
        /\ IsSubsequence(VisitNames, CandidateNames)

\* The position of a named candidate in the sorted list.
PositionOf(name) == CHOOSE j \in 1..Len(poi_list) : poi_list[j].name = name

\* C9: a candidate that fitted neither the current day nor the fresh day is
\* in no DayPlan afterwards, and once the day counter has passed dayCount the
\* loop is over and every visit is of a candidate before the one that
\* stopped it.
C9_NoDeferral ==
    /\ \A dp \in DayPlans : \A i \in 1..Len(dp.items) :
          /\ dp.items[i].name \notin dropped
          /\ PositionOf(dp.items[i].name) < idx
    /\ (pc \in {"loop", "flush", "done"} /\ day > days) =>
          /\ pc # "loop"
          /\ \A dp \in DayPlans : \A i \in 1..Len(dp.items) :
                PositionOf(dp.items[i].name) < idx

\* C9 witness: a run that scheduled a visit, dropped a candidate and then
\* stopped on the day count.
C9_Witness ==
    /\ pc = "done"
    /\ dropped # {}
    /\ admitted # << >>
    /\ day > days

\* C10: no candidate is scheduled twice and no day number appears twice in
\* the returned itinerary.
C10_NoDuplicates ==
    pc = "done" =>
        /\ \A i, j \in 1..Len(itinerary.days) :
              i # j => itinerary.days[i].day # itinerary.days[j].day
        /\ \A i, j \in 1..Len(VisitNames) : i # j => VisitNames[i] # VisitNames[j]

====
